---- MODULE Spec2Model ----
(***************************************************************************)
(* A model of the PCF-to-OpenType converter: PcfParser (pcf-parser.js,     *)
(* src/unnamed/part_001) and convert()/vectorizeGlyph (pcf2opentype.js,    *)
(* src/unnamed/part_002).                                                  *)
(*                                                                         *)
(* Representation choices.                                                 *)
(*  - A byte buffer is the record [head, gap, fill, tail]: the bytes of    *)
(*    head, then gap copies of the byte fill, then the bytes of tail.      *)
(*    It is only a compact way to write a long byte array.                 *)
(*  - The arrays a table decoder builds (offsets, strings, glyphIndeces,   *)
(*    metrics) are not copied into the state: rawBuffer never changes      *)
(*    after it is read, so element i is read from rawBuffer where the      *)
(*    decoder read it.  A table record keeps the scalar fields the         *)
(*    decoder produced plus the offset and format it was called with.      *)
(*  - JavaScript numbers are modelled exactly: a non-integer is a rational *)
(*    [n, d] with d > 0.  None of the values rounded by Math.round is      *)
(*    within floating-point error of a half-integer (see RatRound).        *)
(*  - null and undefined are the records Null and Undefined; NaN stands   *)
(*    for an undefined number.                                             *)
(***************************************************************************)
EXTENDS Integers, Sequences, FiniteSets, TLC

VARIABLES
    pcfFile,      \* the input file (argv.input), as the key of ReadFile    
    argv,         \* the command-line options the converter reads
    rawBuffer,    \* PcfParser.rawBuffer
    pcf,          \* PcfParser.pcf
    pc,           \* position of the program
    tocIdx,       \* parse(): index of the next tocEntry of the for-of loop
    code,         \* convert(): loop variable of the first loop
    glyphs,       \* convert(): the glyph records collected
    fontGlyphs,   \* convert(): the records handed to the font builder
    i,            \* convert(): loop variable of the second loop
    error,        \* message of the exception that ended the run, or ""
    font          \* the opentype.Font built at the end, or Null

vars == <<pcfFile, argv, rawBuffer, pcf, pc, tocIdx, code, glyphs,
          fontGlyphs, i, error, font>>

Null == [null |-> TRUE]
Undefined == [undefined |-> TRUE]
\* An array element that is a number, read outside the array: undefined,
\* NaN in arithmetic.  Every number read from a file is >= 0.
NaN == 0 - 1

(***************************************************************************)
(* Byte buffers.                                                           *)
(***************************************************************************)
BufLen(b) == Len(b.head) + b.gap + Len(b.tail)

ByteAt(b, p) ==
    IF p < Len(b.head) THEN b.head[p + 1]
    ELSE IF p < Len(b.head) + b.gap THEN b.fill
    ELSE b.tail[p - Len(b.head) - b.gap + 1]

\* A read of n bytes at p succeeds; otherwise the generated parser's
\* buffer read throws a RangeError.
InBounds(b, p, n) == p >= 0 /\ n >= 0 /\ p + n <= BufLen(b)

\* The concatenation of ss[lo], ..., ss[hi], by halving.
RECURSIVE FlattenRange(_, _, _)
FlattenRange(ss, lo, hi) ==
    IF lo > hi THEN << >>
    ELSE IF lo = hi THEN ss[lo]
    ELSE LET mid == (lo + hi) \div 2
         IN  FlattenRange(ss, lo, mid) \o FlattenRange(ss, mid + 1, hi)

Flatten(ss) == FlattenRange(ss, 1, Len(ss))

Min(a, b) == IF a < b THEN a ELSE b
Max(a, b) == IF a > b THEN a ELSE b

\* Buffer.slice(start, end): both ends are clamped to the buffer, a NaN
\* start is 0, and an end before the start gives the empty buffer.
BufferSlice(b, start, end) ==
    LET s == Min(Max(start, 0), BufLen(b))
        e == Min(Max(end, 0), BufLen(b))
    IN  IF e <= s THEN << >> ELSE [k \in 1..(e - s) |-> ByteAt(b, s + k - 1)]

readUInt8(b, p) == ByteAt(b, p)

readUInt16LE(b, p) == ByteAt(b, p) + 256 * ByteAt(b, p + 1)

readUInt16BE(b, p) == 256 * ByteAt(b, p) + ByteAt(b, p + 1)

readUInt32LE(b, p) ==
    ByteAt(b, p) + 256 * ByteAt(b, p + 1) + 65536 * ByteAt(b, p + 2)
      + 16777216 * ByteAt(b, p + 3)

readUInt32BE(b, p) ==
    16777216 * ByteAt(b, p) + 65536 * ByteAt(b, p + 1)
      + 256 * ByteAt(b, p + 2) + ByteAt(b, p + 3)

uint16(b, p, endianess) ==
    IF endianess = "big" THEN readUInt16BE(b, p) ELSE readUInt16LE(b, p)

uint32(b, p, endianess) ==
    IF endianess = "big" THEN readUInt32BE(b, p) ELSE readUInt32LE(b, p)

(***************************************************************************)
(* PcfParser: format helpers.                                              *)
(***************************************************************************)
BitSet(v, k) == (v \div (2 ^ k)) % 2 = 1

\* The names tableTypeToString pushes, in order; the string it returns is
\* their join with ' | '.
TypeNames ==
    <<"PCF_PROPERTIES", "PCF_ACCELERATORS", "PCF_METRICS", "PCF_BITMAPS",
      "PCF_INK_METRICS", "PCF_BDF_ENCODINGS", "PCF_SWIDTHS",
      "PCF_GLYPH_NAMES", "PCF_BDF_ACCELERATORS">>

RECURSIVE TypeNamesFrom(_, _)
TypeNamesFrom(type, k) ==
    IF k > 8 THEN << >>
    ELSE (IF BitSet(type, k) THEN <<TypeNames[k + 1]>> ELSE << >>)
           \o TypeNamesFrom(type, k + 1)

tableTypeToString(type) == TypeNamesFrom(type, 0)

isCompressedMetrics(format) == format - (format % 256) = 256

getEndianessFromFormat_BitMutant(format) ==
    IF BitSet(format, 3) THEN "big" ELSE "little"

getEndianessFromFormat(format) ==
    IF BitSet(format, 2) THEN "big" ELSE "little"

(***************************************************************************)
(* PcfParser: the table decoders.  A decoder that reads past the end of    *)
(* the buffer throws (RangeError); its result is then ParseError.          *)
(***************************************************************************)
ParseError == [err |-> TRUE]

\* The index just after the NUL that ends the string starting at p, or -1
\* when the buffer ends first (the zero-terminated read then throws).
RECURSIVE StringEnd(_, _)
StringEnd(b, p) ==
    IF p < 0 \/ p >= BufLen(b) THEN -1
    ELSE IF ByteAt(b, p) = 0 THEN p + 1
    ELSE StringEnd(b, p + 1)

\* The string read at p: its bytes up to the NUL.
StringAt(b, p) ==
    [chars |-> [k \in 1..(StringEnd(b, p) - 1 - p) |-> ByteAt(b, p + k - 1)]]

\* ---- glyph name table -------------------------------------------------
GlyphNameHeader(b, offset, format) ==
    [format |-> readUInt32LE(b, offset),
     glyphCount |-> uint32(b, offset + 4, getEndianessFromFormat(format))]

\* table.offsets[k] of a glyph name table or a bitmap table.
OffsetsAt(b, table, k) ==
    IF k >= 0 /\ k < table.glyphCount
    THEN uint32(b, table.tableOffset + 8 + 4 * k,
                getEndianessFromFormat(table.tableFormat))
    ELSE NaN

NameBaseOffset(glyphCount) == 4 * 2 + 4 * glyphCount + 4

parseGlyphNameTable(b, offset, format) ==
    IF ~InBounds(b, offset, 8) THEN ParseError
    ELSE
      LET h == GlyphNameHeader(b, offset, format)
          endianess == getEndianessFromFormat(format)
      IN  IF ~InBounds(b, offset + 8, 4 * h.glyphCount + 4) THEN ParseError
          ELSE
            LET table ==
                  [err |-> FALSE,
                   format |-> h.format,
                   glyphCount |-> h.glyphCount,
                   stringSize |->
                       uint32(b, offset + 8 + 4 * h.glyphCount, endianess),
                   tableOffset |-> offset,
                   tableFormat |-> format]
            IN  IF \E k \in 0..(h.glyphCount - 1) :
                      StringEnd(b, offset + NameBaseOffset(h.glyphCount)
                                     + OffsetsAt(b, table, k)) = -1
                THEN ParseError
                ELSE table

\* table.strings[k] of a glyph name table.
StringsAt(b, table, k) ==
    IF k >= 0 /\ k < table.glyphCount
    THEN StringAt(b, table.tableOffset + NameBaseOffset(table.glyphCount)
                       + OffsetsAt(b, table, k))
    ELSE Undefined

\* ---- encoding table ---------------------------------------------------
EncodingHeader(b, offset, format) ==
    LET endianess == getEndianessFromFormat(format)
    IN  [format |-> readUInt32LE(b, offset),
         minCharOrByte2 |-> uint16(b, offset + 4, endianess),
         maxCharOrByte2 |-> uint16(b, offset + 6, endianess),
         minByte1 |-> uint16(b, offset + 8, endianess),
         maxByte1 |-> uint16(b, offset + 10, endianess),
         defaultChar |-> uint16(b, offset + 12, endianess)]

\* The length function of the glyphIndeces array; an array of length <= 0
\* is empty.
GlyphIndecesLength(h) ==
    Max(0, (h.maxCharOrByte2 - h.minCharOrByte2 + 1)
             * (h.maxByte1 - h.minByte1 + 1))

parseEncodingTable(b, offset, format) ==
    IF ~InBounds(b, offset, 14) THEN ParseError
    ELSE
      LET h == EncodingHeader(b, offset, format)
      IN  IF ~InBounds(b, offset + 14, 2 * GlyphIndecesLength(h))
          THEN ParseError
          ELSE [err |-> FALSE,
                format |-> h.format,
                minCharOrByte2 |-> h.minCharOrByte2,
                maxCharOrByte2 |-> h.maxCharOrByte2,
                minByte1 |-> h.minByte1,
                maxByte1 |-> h.maxByte1,
                defaultChar |-> h.defaultChar,
                glyphIndecesLength |-> GlyphIndecesLength(h),
                tableOffset |-> offset,
                tableFormat |-> format]

\* table.glyphIndeces[k] of an encoding table.
GlyphIndecesAt(b, table, k) ==
    IF k >= 0 /\ k < table.glyphIndecesLength
    THEN uint16(b, table.tableOffset + 14 + 2 * k,
                getEndianessFromFormat(table.tableFormat))
    ELSE NaN

\* ---- metrics table ----------------------------------------------------
MetricsHeader(b, offset, format) ==
    LET endianess == getEndianessFromFormat(format)
    IN  [format |-> readUInt32LE(b, offset),
         metricsCount |->
             IF isCompressedMetrics(format)
             THEN uint16(b, offset + 4, endianess)
             ELSE uint32(b, offset + 4, endianess)]

parseMetricsTable(b, offset, format) ==
    LET compressed == isCompressedMetrics(format)
        countSize == IF compressed THEN 2 ELSE 4
        entrySize == IF compressed THEN 5 ELSE 12
    IN  IF ~InBounds(b, offset, 4 + countSize) THEN ParseError
        ELSE
          LET h == MetricsHeader(b, offset, format)
          IN  IF ~InBounds(b, offset + 4 + countSize,
                           entrySize * h.metricsCount)
              THEN ParseError
              ELSE [err |-> FALSE,
                    format |-> h.format,
                    metricsCount |-> h.metricsCount,
                    tableOffset |-> offset,
                    tableFormat |-> format]

\* The rebias of one byte of a compressed metrics entry.
Rebias_NoBiasMutant(byte) == byte

Rebias(byte) == byte - 128

\* table.metrics[k] of a metrics table.
MetricsAt(b, table, k) ==
    IF ~(k >= 0 /\ k < table.metricsCount) THEN Undefined
    ELSE IF isCompressedMetrics(table.tableFormat)
    THEN LET p == table.tableOffset + 6 + 5 * k
         IN  [leftSidedBearing |-> Rebias(readUInt8(b, p)),
              rightSideBearing |-> Rebias(readUInt8(b, p + 1)),
              characterWidth |-> Rebias(readUInt8(b, p + 2)),
              characterAscent |-> Rebias(readUInt8(b, p + 3)),
              characterDescent |-> Rebias(readUInt8(b, p + 4)),
              characterAttributes |-> 0]
    ELSE LET p == table.tableOffset + 8 + 12 * k
             endianess == getEndianessFromFormat(table.tableFormat)
         IN  [leftSidedBearing |-> uint16(b, p, endianess),
              rightSideBearing |-> uint16(b, p + 2, endianess),
              characterWidth |-> uint16(b, p + 4, endianess),
              characterAscent |-> uint16(b, p + 6, endianess),
              characterDescent |-> uint16(b, p + 8, endianess),
              characterAttributes |-> uint16(b, p + 10, endianess)]

\* ---- bitmap table -----------------------------------------------------
BitmapHeader(b, offset, format) ==
    [format |-> readUInt32LE(b, offset),
     glyphCount |-> uint32(b, offset + 4, getEndianessFromFormat(format))]

parseBitmapTable(b, offset, format) ==
    IF ~InBounds(b, offset, 8) THEN ParseError
    ELSE
      LET h == BitmapHeader(b, offset, format)
          endianess == getEndianessFromFormat(format)
      IN  IF ~InBounds(b, offset + 8, 4 * h.glyphCount + 16) THEN ParseError
          ELSE
            LET sizesAt == offset + 8 + 4 * h.glyphCount
                bitmapSizes ==
                  [j \in 0..3 |-> uint32(b, sizesAt + 4 * j, endianess)]
            IN  [err |-> FALSE,
                 format |-> h.format,
                 glyphCount |-> h.glyphCount,
                 bitmapSizes |-> bitmapSizes,
                 bitmapSize |-> bitmapSizes[h.format % 4],
                 bitmapsBaseOffset |->
                     offset + 4 * 2 + 4 * h.glyphCount + 4 * 4,
                 tableOffset |-> offset,
                 tableFormat |-> format]

(***************************************************************************)
(* PcfParser: the glyph accessors.  A result is [value |-> v] or           *)
(* [throw |-> message].                                                    *)
(***************************************************************************)
NotParsedYet == [throw |-> "The PCF has not been parsed yet."]
TypeError == [throw |-> "TypeError"]

\* this.pcf.encodingTable.glyphIndeces[glyphCode]
GlyphIndexOf(b, p, glyphCode) ==
    GlyphIndecesAt(b, p.encodingTable, glyphCode)

getGlyphName(b, p, glyphCode) ==
    IF p = Null THEN NotParsedYet
    ELSE IF p.encodingTable = Undefined \/ p.glyphNameTable = Undefined
    THEN TypeError
    ELSE LET glyphIndex == GlyphIndexOf(b, p, glyphCode)
         IN  [value |-> StringsAt(b, p.glyphNameTable, glyphIndex)]

getGlyphMetrics(b, p, glyphCode) ==
    IF p = Null THEN NotParsedYet
    ELSE IF p.encodingTable = Undefined \/ p.metricsTable = Undefined
    THEN TypeError
    ELSE LET glyphIndex == GlyphIndexOf(b, p, glyphCode)
         IN  [value |-> MetricsAt(b, p.metricsTable, glyphIndex)]

\* bitmapEnd before the base offset is added (lines 395-397).
BitmapEnd_IgnoreNextOffsetMutant(b, table, glyphIndex) == table.bitmapSize

BitmapEnd(b, table, glyphIndex) ==
    IF glyphIndex # NaN /\ glyphIndex < table.glyphCount - 1
    THEN OffsetsAt(b, table, glyphIndex + 1)
    ELSE table.bitmapSize

\* An undefined offset makes bitmapOffset NaN, which slice() takes as 0.
getGlyphBitmap(b, p, glyphCode) ==
    IF p = Null THEN NotParsedYet
    ELSE IF p.encodingTable = Undefined \/ p.bitmapTable = Undefined
    THEN TypeError
    ELSE LET glyphIndex == GlyphIndexOf(b, p, glyphCode)
             first == OffsetsAt(b, p.bitmapTable, glyphIndex)
             bitmapOffset == IF first = NaN THEN 0
                             ELSE first + p.bitmapTable.bitmapsBaseOffset
             last == BitmapEnd(b, p.bitmapTable, glyphIndex)
             bitmapEnd == IF last = NaN THEN 0
                          ELSE last + p.bitmapTable.bitmapsBaseOffset
         IN  [value |-> BufferSlice(b, bitmapOffset, bitmapEnd)]

(***************************************************************************)
(* pcf2opentype.js: numbers.  A pixel-space value is the rational n / d;   *)
(* a path coordinate is h / 2 + m / 2000000 (h carries the rounded corner  *)
(* and RADIUS = (right - left) / 2, m carries RADIUS * C, C = 0.551915).   *)
(***************************************************************************)
UNITS_PER_EM == 1000
BYTES_PER_LINE == 4
WHITE_PIXEL == "_"
BLACK_PIXEL == "#"

PIXEL_HEIGHT(a) == a.glyph_size_in_pixel
DEFAULT_ASCENT_IN_PIXELS(a) == PIXEL_HEIGHT(a) - 2

RatScale(k, r) == [n |-> k * r.n, d |-> r.d]
RatAdd(r, s) ==
    IF r.d = s.d THEN [n |-> r.n + s.n, d |-> r.d]
    ELSE [n |-> r.n * s.d + s.n * r.d, d |-> r.d * s.d]
RatSub(r, s) == RatAdd(r, RatScale(-1, s))
RatEq(r, s) == r.n * s.d = s.n * r.d

\* Math.round: the nearest integer, halves upwards.  The values rounded
\* here are odd multiples of 1000 / (9 * PIXEL_HEIGHT) shifted by
\* integers times 1000 / PIXEL_HEIGHT, never a half-integer.
RatRound(r) == (2 * r.n + r.d) \div (2 * r.d)

\* Both are kept over the denominator 9 * PIXEL_HEIGHT.
PIXEL_SIZE(a) == [n |-> 9 * UNITS_PER_EM, d |-> 9 * PIXEL_HEIGHT(a)]
PIXEL_PADDING_NoneMutant(a) == [n |-> 0, d |-> 9 * PIXEL_HEIGHT(a)]
PIXEL_PADDING_OutwardsMutant(a) ==
    [n |-> 0 - UNITS_PER_EM, d |-> 9 * PIXEL_HEIGHT(a)]
PIXEL_PADDING(a) == [n |-> UNITS_PER_EM, d |-> 9 * PIXEL_HEIGHT(a)]
DESCENDER_HEIGHT(a) == RatScale(3, PIXEL_SIZE(a))

(***************************************************************************)
(* pcf2opentype.js: bitmap unpacking and the glyph filter.                 *)
(***************************************************************************)
\* ('00000000' + NaN.toString(2)).substr(-8) for a byte read past the end
\* of the bitmap.
NaNString == <<"_", "_", "_", "_", "_", "N", "a", "N">>

byteToBinaryString(byte) ==
    IF byte = NaN THEN NaNString
    ELSE [k \in 1..8 |->
            IF BitSet(byte, 8 - k) THEN BLACK_PIXEL ELSE WHITE_PIXEL]

\* bitmap[k] of a Buffer: undefined outside it, which parseInt makes NaN.
BitmapByte(bitmap, k) ==
    IF k >= 0 /\ k < Len(bitmap) THEN bitmap[k + 1] ELSE NaN

\* String.prototype.slice(0, end): a negative end counts from the end.
StringSlice0(line, end) ==
    LET e == IF end < 0 THEN Max(Len(line) + end, 0) ELSE Min(end, Len(line))
    IN  SubSeq(line, 1, e)

BinaryLine(bitmap, row, width) ==
    LET at == row * BYTES_PER_LINE
    IN  StringSlice0(byteToBinaryString(BitmapByte(bitmap, at))
                       \o byteToBinaryString(BitmapByte(bitmap, at + 1))
                       \o byteToBinaryString(BitmapByte(bitmap, at + 2))
                       \o byteToBinaryString(BitmapByte(bitmap, at + 3)),
                     width)

bitmapToBinaryLines(bitmap, width) ==
    [r \in 1..((Len(bitmap) + BYTES_PER_LINE - 1) \div BYTES_PER_LINE) |->
        BinaryLine(bitmap, r - 1, width)]

ASCII_SET == 32..255

\* The members up to U+0112 of the set the GBK decoder yields for the lead
\* bytes A1-A9 and B0-F7: the Latin-1 symbols and letters of rows A1 and
\* A8, and U+0101 (A8A1).  No code point above U+0112 is given to the
\* filter here.
GB2312_SET ==
    {164, 167, 168, 176, 177, 183, 215, 224, 225, 232, 233, 234, 236, 237,
     242, 243, 247, 249, 250, 252, 257}

isAcceptedGlyph_NoLowerBoundMutant(glyphCode, a) ==
    IF a.dry_run THEN glyphCode <= 255
    ELSE IF a.gb2312_only
    THEN glyphCode <= 255 \/ glyphCode \in GB2312_SET
    ELSE TRUE

isAcceptedGlyph(glyphCode, a) ==
    IF a.dry_run THEN glyphCode \in ASCII_SET
    ELSE IF a.gb2312_only
    THEN glyphCode \in ASCII_SET \/ glyphCode \in GB2312_SET
    ELSE TRUE

(***************************************************************************)
(* pcf2opentype.js: the dot shapes and vectorizeGlyph.  A path is the      *)
(* sequence of commands of an opentype.Path: moveTo pushes M, lineTo L,    *)
(* curveTo C and close Z.                                                  *)
(***************************************************************************)
C_MICRO == 551915

\* The coordinate base + kR * RADIUS + kC * RADIUS * C, RADIUS = r / 2.
Coord(base, kR, kC, r) == [h |-> 2 * base + kR * r, m |-> kC * r * C_MICRO]

MoveTo(x, y) == [type |-> "M", x |-> x, y |-> y]
LineTo(x, y) == [type |-> "L", x |-> x, y |-> y]
CurveTo(x1, y1, x2, y2, x, y) ==
    [type |-> "C", x1 |-> x1, y1 |-> y1, x2 |-> x2, y2 |-> y2,
     x |-> x, y |-> y]
ClosePath == [type |-> "Z"]

ScreenXyToFontXy_FloorMutant(x, y, glyphTop) ==
    <<x.n \div x.d, RatSub(glyphTop, y).n \div RatSub(glyphTop, y).d>>

ScreenXyToFontXy(x, y, glyphTop) == <<RatRound(x), RatRound(RatSub(glyphTop, y))>>

drawSquareDot(left, top, right, bottom) ==
    LET l == Coord(left, 0, 0, 0)
        t == Coord(top, 0, 0, 0)
        r == Coord(right, 0, 0, 0)
        b == Coord(bottom, 0, 0, 0)
    IN  <<MoveTo(l, t), LineTo(l, b), LineTo(r, b), LineTo(r, t),
          LineTo(l, t)>>

drawDiamondDot(left, top, right, bottom) ==
    LET d == right - left
        l == Coord(left, 0, 0, d)
        r == Coord(right, 0, 0, d)
        t == Coord(top, 0, 0, d)
        b == Coord(bottom, 0, 0, d)
        midX == Coord(left, 1, 0, d)
        midY == Coord(top, -1, 0, d)
    IN  <<MoveTo(midX, t), LineTo(l, midY), LineTo(midX, b),
          LineTo(r, midY), LineTo(midX, t)>>

drawCircleDot_OpenMutant(left, top, right, bottom) ==
    LET d == right - left
        l == Coord(left, 0, 0, d)
        r == Coord(right, 0, 0, d)
        t == Coord(top, 0, 0, d)
        b == Coord(bottom, 0, 0, d)
        midX == Coord(left, 1, 0, d)
        midY == Coord(top, -1, 0, d)
    IN  <<MoveTo(midX, t),
          CurveTo(Coord(left, 1, -1, d), t,
                  l, Coord(top, -1, 1, d),
                  l, midY),
          CurveTo(l, Coord(top, -1, -1, d),
                  Coord(left, 1, -1, d), b,
                  midX, b),
          CurveTo(Coord(left, 1, 1, d), b,
                  r, Coord(top, -1, -1, d),
                  r, midY),
          CurveTo(r, Coord(top, -1, 1, d),
                  Coord(left, 1, 1, d), t,
                  Coord(left, 1, 1, d), t)>>

drawCircleDot(left, top, right, bottom) ==
    LET d == right - left
        l == Coord(left, 0, 0, d)
        r == Coord(right, 0, 0, d)
        t == Coord(top, 0, 0, d)
        b == Coord(bottom, 0, 0, d)
        midX == Coord(left, 1, 0, d)
        midY == Coord(top, -1, 0, d)
    IN  <<MoveTo(midX, t),
          CurveTo(Coord(left, 1, -1, d), t,
                  l, Coord(top, -1, 1, d),
                  l, midY),
          CurveTo(l, Coord(top, -1, -1, d),
                  Coord(left, 1, -1, d), b,
                  midX, b),
          CurveTo(Coord(left, 1, 1, d), b,
                  r, Coord(top, -1, -1, d),
                  r, midY),
          CurveTo(r, Coord(top, -1, 1, d),
                  Coord(left, 1, 1, d), t,
                  midX, t)>>

\* The commands drawn for the pixel at row y, column x (lines 269-286).
DotCommands(a, xOffset, yOffset, glyphTop, x, y) ==
    LET x1 == RatAdd(RatAdd(xOffset, RatScale(x, PIXEL_SIZE(a))),
                     PIXEL_PADDING(a))
        y1 == RatAdd(RatAdd(yOffset, RatScale(y, PIXEL_SIZE(a))),
                     PIXEL_PADDING(a))
        leftTop == ScreenXyToFontXy(x1, y1, glyphTop)
        x2 == RatSub(RatAdd(xOffset, RatScale(x + 1, PIXEL_SIZE(a))),
                     PIXEL_PADDING(a))
        y2 == RatSub(RatAdd(yOffset, RatScale(y + 1, PIXEL_SIZE(a))),
                     PIXEL_PADDING(a))
        rightBottom == ScreenXyToFontXy(x2, y2, glyphTop)
        left == leftTop[1]
        top == leftTop[2]
        right == rightBottom[1]
        bottom == rightBottom[2]
    IN  IF a.dot_shape = "square"
        THEN drawSquareDot(left, top, right, bottom)
        ELSE IF a.dot_shape = "circle"
        THEN drawCircleDot(left, top, right, bottom)
        ELSE IF a.dot_shape = "diamond"
        THEN drawDiamondDot(left, top, right, bottom)
        ELSE << >>

\* The commands the two nested loops (lines 263-289) push: row after row,
\* column after column, the dot of every black pixel.
RowCommands(a, line, xOffset, yOffset, glyphTop, y) ==
    Flatten([c \in 1..Len(line) |->
               IF line[c] = BLACK_PIXEL
               THEN DotCommands(a, xOffset, yOffset, glyphTop, c - 1, y)
               ELSE << >>])

PathCommands(a, binaryLines, xOffset, yOffset, glyphTop) ==
    Flatten([r \in 1..Len(binaryLines) |->
               RowCommands(a, binaryLines[r], xOffset, yOffset, glyphTop,
                           r - 1)])

AdvanceWidth_RoundedMutant(width, a) ==
    [n |-> RatRound(RatScale(width, PIXEL_SIZE(a))), d |-> 1]

\* glyphWidth (line 255).
AdvanceWidth(width, a) == RatScale(width, PIXEL_SIZE(a))

vectorizeGlyph(glyphInfo, a) ==
    LET width == glyphInfo.metrics.characterWidth
        glyphWidth == AdvanceWidth(width, a)
        glyphTop == RatSub(RatScale(PIXEL_HEIGHT(a), PIXEL_SIZE(a)),
                           DESCENDER_HEIGHT(a))
        xOffset == RatScale(glyphInfo.metrics.leftSidedBearing, PIXEL_SIZE(a))
        yOffset == RatScale(DEFAULT_ASCENT_IN_PIXELS(a)
                              - glyphInfo.metrics.characterAscent,
                            PIXEL_SIZE(a))
        binaryLines == bitmapToBinaryLines(glyphInfo.bitmap, width)
    IN  [name |-> glyphInfo.name,
         unicode |-> glyphInfo.code,
         advanceWidth |-> glyphWidth,
         path |-> PathCommands(a, binaryLines, xOffset, yOffset, glyphTop)
                    \o <<ClosePath>>]

\* '.notdef' as character codes, like the names read from the file.
NotdefName == [chars |-> <<46, 110, 111, 116, 100, 101, 102>>]

NotdefGlyph_ClosedPathMutant(a) ==
    [name |-> NotdefName,
     unicode |-> 0,
     advanceWidth |-> RatScale(8, PIXEL_SIZE(a)),
     path |-> <<ClosePath>>]

\* notdefGlyph (lines 330-335).
NotdefGlyph(a) ==
    [name |-> NotdefName,
     unicode |-> 0,
     advanceWidth |-> RatScale(8, PIXEL_SIZE(a)),
     path |-> << >>]

(***************************************************************************)
(* Input files.  The operators below write PCF files byte by byte, so the  *)
(* parser of the model reads real byte layouts.  They are the inputs of    *)
(* the runs, not part of the program.                                      *)
(***************************************************************************)
LE16(v) == <<v % 256, (v \div 256) % 256>>
BE16(v) == <<(v \div 256) % 256, v % 256>>
LE32(v) ==
    <<v % 256, (v \div 256) % 256, (v \div 65536) % 256,
      (v \div 16777216) % 256>>
BE32(v) ==
    <<(v \div 16777216) % 256, (v \div 65536) % 256, (v \div 256) % 256,
      v % 256>>
W16(big, v) == IF big THEN BE16(v) ELSE LE16(v)
W32(big, v) == IF big THEN BE32(v) ELSE LE32(v)


\* The total length of ss[1], ..., ss[k].
SumLen(ss, k) == Len(FlattenRange(ss, 1, k))

\* The directory format word of a table.
FormatWord(compressed, big, low) ==
    (IF compressed THEN 256 ELSE 0) + (IF big THEN 4 ELSE 0) + low

\* names: a sequence of strings, each a sequence of character codes.
NameTableBytes(word, big, names) ==
    LET blobs == [k \in 1..Len(names) |-> names[k] \o <<0>>]
    IN  LE32(word) \o W32(big, Len(names))
          \o Flatten([k \in 1..Len(names) |-> W32(big, SumLen(blobs, k - 1))])
          \o W32(big, SumLen(blobs, Len(names)))
          \o Flatten(blobs)

\* range: <<minCharOrByte2, maxCharOrByte2, minByte1, maxByte1, defaultChar>>
EncodingTableBytes(word, big, range, indeces) ==
    LE32(word)
      \o Flatten([k \in 1..5 |-> W16(big, range[k])])
      \o Flatten([k \in 1..Len(indeces) |-> W16(big, indeces[k])])

\* entries: the stored values, 5 bytes each.
CompressedMetricsBytes(word, big, entries) ==
    LE32(word) \o W16(big, Len(entries)) \o Flatten(entries)

\* entries: the stored values, 6 16-bit fields each.
DefaultMetricsBytes(word, big, count, entries) ==
    LE32(word) \o W32(big, count)
      \o Flatten([k \in 1..Len(entries) |->
                    Flatten([f \in 1..6 |-> W16(big, entries[k][f])])])

BitmapTableBytes(word, big, offsets, sizes, data) ==
    LE32(word) \o W32(big, Len(offsets))
      \o Flatten([k \in 1..Len(offsets) |-> W32(big, offsets[k])])
      \o Flatten([k \in 1..4 |-> W32(big, sizes[k])])
      \o data

PCF_METRICS == 4
PCF_BITMAPS == 8
PCF_BDF_ENCODINGS == 32
PCF_GLYPH_NAMES == 128

MagicBytes == <<1, 102, 99, 112>>

\* tables: a sequence of [type, format, bytes]; the tables follow the
\* directory in its order.
FileBytes(magic, tables) ==
    LET n == Len(tables)
        bodies == [k \in 1..n |-> tables[k].bytes]
    IN  magic \o LE32(n)
          \o Flatten([k \in 1..n |->
                LE32(tables[k].type) \o LE32(tables[k].format)
                  \o LE32(Len(tables[k].bytes))
                  \o LE32(8 + 16 * n + SumLen(bodies, k - 1))])
          \o Flatten(bodies)

Buffer(bytes) == [head |-> bytes, gap |-> 0, fill |-> 0, tail |-> << >>]

(***************************************************************************)
(* The fonts written to the input files.                                   *)
(***************************************************************************)
\* 0xFFFF, the value a PCF encoding table stores for a code without glyph.
Absent == 256 * 255 + 255

\* Three glyphs: a blank one ('sp', 5 wide, with stray bits right of its
\* width), a 5 x 3 checkerboard ('A') and a 40 wide one ('B').
BaseNames == <<(<<115, 112>>), (<<65>>), (<<66>>)>>

\* Codes 0..34: 31 -> 1, 32 -> 0, 33 -> 1, 34 -> 2, code 5 -> 7 (no such
\* glyph), the rest absent.
BaseIndeces ==
    [k \in 1..35 |->
        CASE k - 1 = 5 -> 7
          [] k - 1 = 31 -> 1
          [] k - 1 = 32 -> 0
          [] k - 1 = 33 -> 1
          [] k - 1 = 34 -> 2
          [] OTHER -> Absent]

BaseRange == <<0, 34, 0, 0, 32>>

BaseCompressedMetrics ==
    <<(<<128, 133, 133, 139, 130>>), (<<129, 134, 133, 139, 130>>),
      (<<128, 168, 168, 138, 129>>)>>

BaseDefaultMetrics ==
    <<(<<0, 5, 5, 11, 2, 0>>), (<<1, 6, 5, 11, 2, 258>>),
      (<<0, 40, 40, 10, 1, 0>>)>>

BaseOffsets == <<0, 8, 20>>
BaseSizes == <<32, 36, 40, 44>>
BaseData ==
    <<0, 0, 0, 0, 7, 0, 0, 0,
      168, 0, 0, 0, 80, 0, 0, 0, 168, 0, 0, 0,
      255, 255, 255, 255, 128, 0, 0, 1, 0, 0, 0, 0>>

\* key.big: bit 0 names, bit 1 encodings, bit 2 metrics, bit 3 bitmaps are
\* written big-endian.  key.low: the low 2 bits of the bitmap table's
\* directory format; key.inLow: those of its in-table format word.
MetricsTableOf(key, metrics) ==
    [type |-> PCF_METRICS,
     format |-> FormatWord(key.compressed, BitSet(key.big, 2), 0),
     bytes |->
       IF key.compressed
       THEN CompressedMetricsBytes(
              FormatWord(TRUE, BitSet(key.big, 2), 0), BitSet(key.big, 2),
              metrics)
       ELSE DefaultMetricsBytes(
              FormatWord(FALSE, BitSet(key.big, 2), 0), BitSet(key.big, 2),
              Len(metrics), metrics)]

BitmapTableOf(key, offsets, sizes, data) ==
    [type |-> PCF_BITMAPS,
     format |-> FormatWord(FALSE, BitSet(key.big, 3), key.low),
     bytes |-> BitmapTableBytes(
                 FormatWord(FALSE, BitSet(key.big, 3), key.inLow),
                 BitSet(key.big, 3), offsets, sizes, data)]

EncodingTableOf(key, range, indeces) ==
    [type |-> PCF_BDF_ENCODINGS,
     format |-> FormatWord(FALSE, BitSet(key.big, 1), 0),
     bytes |-> EncodingTableBytes(
                 FormatWord(FALSE, BitSet(key.big, 1), 0),
                 BitSet(key.big, 1), range, indeces)]

NameTableOf(key, names) ==
    [type |-> PCF_GLYPH_NAMES,
     format |-> FormatWord(FALSE, BitSet(key.big, 0), 0),
     bytes |-> NameTableBytes(
                 FormatWord(FALSE, BitSet(key.big, 0), 0),
                 BitSet(key.big, 0), names)]

\* The bitmap table comes last, so that a file cut short loses bitmap
\* bytes first.
BaseTables(key) ==
    <<MetricsTableOf(key, IF key.compressed THEN BaseCompressedMetrics
                          ELSE BaseDefaultMetrics),
      EncodingTableOf(key, BaseRange, BaseIndeces),
      NameTableOf(key, BaseNames),
      BitmapTableOf(key, BaseOffsets, BaseSizes, BaseData)>>

BaseFile(key) == Buffer(FileBytes(MagicBytes, BaseTables(key)))

\* ---- bounds of the runs ------------------------------------------------
\* Pixel heights up to MaxPixelHeight are tried (13 is the default; the
\* help text names 13, 15 and 16).
MaxPixelHeight == 16
\* The grid glyph has MaxGridRows rows of 8 black pixels.
MaxGridRows == 16
\* The wide font's encoding table has the codes 0..WideCodes - 1.
WideCodes == 258
\* The widths of the single-glyph fonts go up to MaxDotWidth.
MaxDotWidth == 40

\* ---- the other fonts --------------------------------------------------
\* The base file with byte k of the signature changed.
MagicFile(key) ==
    Buffer(FileBytes([MagicBytes EXCEPT ![key.variant] = (@ + 1) % 256],
                     BaseTables(key)))

\* The first key.cut bytes of the base file.
CutFile(key) == Buffer(SubSeq(FileBytes(MagicBytes, BaseTables(key)), 1, key.cut))

WideIndeces ==
    [k \in 1..WideCodes |->
        CASE k - 1 = 31 -> 1
          [] k - 1 = 32 -> 0
          [] k - 1 = 65 -> 1
          [] k - 1 = 255 -> 2
          [] k - 1 = 256 -> 1
          [] k - 1 = 257 -> 2
          [] OTHER -> Absent]

WideFile(key) ==
    Buffer(FileBytes(MagicBytes,
      <<MetricsTableOf(key, BaseCompressedMetrics),
        EncodingTableOf(key, <<0, WideCodes - 1, 0, 0, 32>>, WideIndeces),
        NameTableOf(key, BaseNames),
        BitmapTableOf(key, BaseOffsets, BaseSizes, BaseData)>>))

\* 256 compressed metrics entries: every field takes every byte value.
AllBytesMetrics ==
    [k \in 1..256 |-> [f \in 1..5 |-> (k - 1 + f - 1) % 256]]

AllBytesFile(key) ==
    Buffer(FileBytes(MagicBytes,
      <<MetricsTableOf(key, AllBytesMetrics),
        EncodingTableOf(key, BaseRange, BaseIndeces),
        NameTableOf(key, BaseNames),
        BitmapTableOf(key, BaseOffsets, BaseSizes, BaseData)>>))

\* A default-format metrics table of 65536 entries, all fields 0: the
\* table comes last and its entries are the gap of the buffer.
HugeIndeces == <<Absent, 0, Absent, 1>>

HugeFile(key) ==
    [head |-> FileBytes(MagicBytes,
        <<EncodingTableOf(key, <<0, 3, 0, 0, 0>>, HugeIndeces),
          NameTableOf(key, BaseNames),
          BitmapTableOf(key, BaseOffsets, BaseSizes, BaseData),
          [type |-> PCF_METRICS,
           format |-> FormatWord(FALSE, BitSet(key.big, 2), 0),
           bytes |-> DefaultMetricsBytes(
                       FormatWord(FALSE, BitSet(key.big, 2), 0),
                       BitSet(key.big, 2), 65536, << >>)]>>),
     gap |-> 12 * 65536,
     fill |-> 0,
     tail |-> << >>]

\* Single-glyph fonts: the glyph of code 0 is named '.notdef', is
\* key.variant - 128 wide, has the left side bearing key.lsb - 128, the
\* ascent key.ascent - 128 and the bitmap DotData[key.pattern].  Pattern 5
\* is the grid, pattern 6 the single pixel of row 0, column 0.
GridData == Flatten([r \in 1..MaxGridRows |-> <<255, 0, 0, 0>>])

DotData ==
    <<(<<255, 255, 255, 255>>),
      (<<255, 255, 255, 255, 129>>),
      (<<168, 0, 0, 1, 0, 85, 0, 128>>),
      (<<0, 0, 0, 0>>),
      GridData,
      (<<128, 0, 0, 0>>)>>

DotFile(key) ==
    Buffer(FileBytes(MagicBytes,
      <<MetricsTableOf(key, <<(<<key.lsb, 128, key.variant, key.ascent, 130>>)>>),
        EncodingTableOf(key, <<0, 0, 0, 0, 0>>, <<0>>),
        NameTableOf(key, <<(<<46, 110, 111, 116, 100, 101, 102>>)>>),
        BitmapTableOf(key, <<0>>,
                      [k \in 1..4 |-> Len(DotData[key.pattern])],
                      DotData[key.pattern])>>))

\* Directories: variants 1..4 lack the metrics, encoding, name or bitmap
\* table; variant 5 sets an unknown bit in the name table's type; variant
\* 6 sets two known bits in the bitmap table's type.
TocTables(key) ==
    LET t == BaseTables(key)
        v == key.variant
    IN  IF v <= 4 THEN [k \in 1..3 |-> t[IF k < v THEN k ELSE k + 1]]
        ELSE IF v = 5
        THEN [t EXCEPT ![3] = [@ EXCEPT !.type = PCF_GLYPH_NAMES + 512]]
        ELSE [t EXCEPT ![4] = [@ EXCEPT !.type = PCF_BITMAPS + 16]]

TocFile(key) == Buffer(FileBytes(MagicBytes, TocTables(key)))

\* The base font with another encoding range: variant 1 has the one row
\* of the codes 32..34, variant 2 the rows 1 and 2 of the columns 0 and 1.
RangeFile(key) ==
    LET t == BaseTables(key)
    IN  Buffer(FileBytes(MagicBytes,
          [t EXCEPT ![2] =
             IF key.variant = 1
             THEN EncodingTableOf(key, <<32, 34, 0, 0, 32>>, <<0, 1, 2>>)
             ELSE EncodingTableOf(key, <<0, 1, 1, 2, 0>>,
                                  <<0, Absent, 1, 2>>)]))

\* fs.readFileSync(this.pcfFile)
ReadFile(key) ==
    CASE key.family = "base" -> BaseFile(key)
      [] key.family = "magic" -> MagicFile(key)
      [] key.family = "cut" -> CutFile(key)
      [] key.family = "wide" -> WideFile(key)
      [] key.family = "bytes" -> AllBytesFile(key)
      [] key.family = "huge" -> HugeFile(key)
      [] key.family = "dots" -> DotFile(key)
      [] key.family = "toc" -> TocFile(key)
      [] key.family = "range" -> RangeFile(key)

\* ---- the runs ---------------------------------------------------------
DefaultKey ==
    [family |-> "base", big |-> 0, compressed |-> TRUE, low |-> 0,
     inLow |-> 0, cut |-> 0, variant |-> 0, pattern |-> 0,
     lsb |-> 128, ascent |-> 139]

DefaultArgv ==
    [glyph_size_in_pixel |-> 13, dot_shape |-> "square",
     dry_run |-> FALSE, gb2312_only |-> FALSE]

DotShapes == {"square", "circle", "diamond"}

\* <<dry_run, gb2312_only>>: Full, AsciiOnly, AsciiPlusGb2312, and both
\* flags (dry_run wins).
Policies == {<<FALSE, FALSE>>, <<TRUE, FALSE>>, <<FALSE, TRUE>>, <<TRUE, TRUE>>}

ArgvOf(ph, shape, policy) ==
    [glyph_size_in_pixel |-> ph, dot_shape |-> shape,
     dry_run |-> policy[1], gb2312_only |-> policy[2]]

BaseFileLen == Len(FileBytes(MagicBytes, BaseTables(DefaultKey)))

Runs ==
    { [file |-> [DefaultKey EXCEPT !.big = b, !.compressed = c],
       argv |-> DefaultArgv] : b \in 0..15, c \in BOOLEAN }
    \cup
    { [file |-> [DefaultKey EXCEPT !.low = l, !.inLow = m],
       argv |-> DefaultArgv] : l \in 0..3, m \in 0..3 }
    \cup
    { [file |-> DefaultKey, argv |-> ArgvOf(ph, s, p)] :
        ph \in 13..MaxPixelHeight, s \in DotShapes, p \in Policies }
    \cup
    { [file |-> [DefaultKey EXCEPT !.family = "magic", !.variant = v],
       argv |-> DefaultArgv] : v \in 1..4 }
    \cup
    { [file |-> [DefaultKey EXCEPT !.family = "cut", !.cut = n],
       argv |-> DefaultArgv] : n \in 0..(BaseFileLen - 1) }
    \cup
    { [file |-> [DefaultKey EXCEPT !.family = "wide"],
       argv |-> ArgvOf(13, "square", p)] : p \in Policies }
    \cup
    { [file |-> [DefaultKey EXCEPT !.family = "bytes"], argv |-> DefaultArgv],
      [file |-> [DefaultKey EXCEPT !.family = "huge", !.compressed = FALSE],
       argv |-> DefaultArgv] }
    \cup
    { [file |-> [DefaultKey EXCEPT !.family = "dots", !.variant = w,
                                   !.pattern = d],
       argv |-> ArgvOf(13, s, <<FALSE, FALSE>>)] :
        w \in {127, 128, 133, 136, 160, 161, 128 + MaxDotWidth},
        d \in 1..4, s \in DotShapes }
    \cup
    { [file |-> [DefaultKey EXCEPT !.family = "dots", !.variant = 136,
                                   !.pattern = d, !.lsb = l, !.ascent = t],
       argv |-> ArgvOf(ph, s, <<FALSE, FALSE>>)] :
        d \in {5, 6}, l \in {126, 128, 133}, t \in {137, 139},
        ph \in 10..MaxPixelHeight, s \in DotShapes }
    \cup
    { [file |-> [DefaultKey EXCEPT !.family = "dots", !.variant = 136,
                                   !.pattern = 4],
       argv |-> ArgvOf(13, "square", p)] : p \in Policies }
    \cup
    { [file |-> [DefaultKey EXCEPT !.family = "toc", !.variant = v],
       argv |-> DefaultArgv] : v \in 1..6 }
    \cup
    { [file |-> [DefaultKey EXCEPT !.family = "range", !.variant = v],
       argv |-> DefaultArgv] : v \in 1..2 }

(***************************************************************************)
(* The program: new PcfParser(argv.input), parser.parse(), then the two    *)
(* loops of convert() and the hand-over to the font builder.               *)
(***************************************************************************)
ExpectedHeader == <<1, 102, 99, 112>>

Init ==
    /\ \E run \in Runs : pcfFile = run.file /\ argv = run.argv
    /\ rawBuffer = Null
    /\ pcf = Null
    /\ pc = "parse"
    /\ tocIdx = 0
    /\ code = 0
    /\ glyphs = << >>
    /\ fontGlyphs = << >>
    /\ i = 0
    /\ error = ""
    /\ font = Null

\* An exception nobody catches ends the run.
Throw(message) == pc' = "failed" /\ error' = message

\* tocEntry[k] as mainParser.parse returns it.
TocEntryAt(b, k) ==
    [type |-> readUInt32LE(b, 8 + 16 * (k - 1)),
     format |-> readUInt32LE(b, 8 + 16 * (k - 1) + 4),
     size |-> readUInt32LE(b, 8 + 16 * (k - 1) + 8),
     offset |-> readUInt32LE(b, 8 + 16 * (k - 1) + 12),
     typeString |-> Undefined]

\* The string read for 'header': at most 4 bytes.
HeaderAt(b) == BufferSlice(b, 0, 4)

\* parse(), lines 45-73: read the file, parse the header and the directory,
\* check the signature.
ParseHeader ==
    /\ pc = "parse"
    /\ LET b == ReadFile(pcfFile)
       IN  /\ rawBuffer' = b
           /\ IF ~InBounds(b, 0, 8)
              THEN Throw("RangeError") /\ UNCHANGED <<pcf, tocIdx>>
              ELSE LET tableCount == readUInt32LE(b, 4)
                   IN  IF ~InBounds(b, 8, 16 * tableCount)
                       THEN Throw("RangeError") /\ UNCHANGED <<pcf, tocIdx>>
                       ELSE /\ pcf' = [header |-> HeaderAt(b),
                                       tableCount |-> tableCount,
                                       tocEntry |->
                                         [k \in 1..tableCount |->
                                            TocEntryAt(b, k)],
                                       glyphNameTable |-> Undefined,
                                       encodingTable |-> Undefined,
                                       metricsTable |-> Undefined,
                                       bitmapTable |-> Undefined]
                            /\ IF HeaderAt(b) # ExpectedHeader
                               THEN Throw("Not a valid PCF file.")
                                    /\ UNCHANGED tocIdx
                               ELSE pc' = "tables" /\ tocIdx' = 1
                                    /\ UNCHANGED error
    /\ UNCHANGED <<pcfFile, argv, code, glyphs, fontGlyphs, i, font>>

\* The decoder the switch of parse() picks for a directory entry, applied;
\* Undefined when no case matches.
DecodeEntry(b, table) ==
    LET typeString == tableTypeToString(table.type)
    IN  CASE typeString = <<"PCF_GLYPH_NAMES">> ->
               parseGlyphNameTable(b, table.offset, table.format)
          [] typeString = <<"PCF_BDF_ENCODINGS">> ->
               parseEncodingTable(b, table.offset, table.format)
          [] typeString = <<"PCF_METRICS">> ->
               parseMetricsTable(b, table.offset, table.format)
          [] typeString = <<"PCF_BITMAPS">> ->
               parseBitmapTable(b, table.offset, table.format)
          [] OTHER -> Undefined

\* parse(), lines 75-97: one iteration of the loop over the directory.
ParseTable ==
    /\ pc = "tables"
    /\ tocIdx <= Len(pcf.tocEntry)
    /\ LET table == pcf.tocEntry[tocIdx]
           typeString == tableTypeToString(table.type)
           decoded == DecodeEntry(rawBuffer, table)
           annotated == [pcf EXCEPT !.tocEntry[tocIdx].typeString = typeString]
       IN  IF decoded = Undefined
           THEN pcf' = annotated /\ tocIdx' = tocIdx + 1
                /\ UNCHANGED <<pc, error>>
           ELSE IF decoded.err
           THEN pcf' = annotated /\ Throw("RangeError") /\ UNCHANGED tocIdx
           ELSE /\ pcf' =
                     CASE typeString = <<"PCF_GLYPH_NAMES">> ->
                            [annotated EXCEPT !.glyphNameTable = decoded]
                       [] typeString = <<"PCF_BDF_ENCODINGS">> ->
                            [annotated EXCEPT !.encodingTable = decoded]
                       [] typeString = <<"PCF_METRICS">> ->
                            [annotated EXCEPT !.metricsTable = decoded]
                       [] typeString = <<"PCF_BITMAPS">> ->
                            [annotated EXCEPT !.bitmapTable = decoded]
                /\ tocIdx' = tocIdx + 1
                /\ UNCHANGED <<pc, error>>
    /\ UNCHANGED <<pcfFile, argv, rawBuffer, code, glyphs, fontGlyphs, i, font>>

\* parse(), lines 98-101: the log line reads metricsTable.metricsCount.
ParseReturn ==
    /\ pc = "tables"
    /\ tocIdx > Len(pcf.tocEntry)
    /\ IF pcf.metricsTable = Undefined
       THEN Throw("TypeError")
       ELSE pc' = "convert" /\ UNCHANGED error
    /\ UNCHANGED <<pcfFile, argv, rawBuffer, pcf, tocIdx, code, glyphs,
                   fontGlyphs, i, font>>

\* convert(), line 311: the loop condition reads encodingTable.glyphIndeces.
ConvertNoEncoding ==
    /\ pc = "convert"
    /\ pcf.encodingTable = Undefined
    /\ Throw("TypeError")
    /\ UNCHANGED <<pcfFile, argv, rawBuffer, pcf, tocIdx, code, glyphs,
                   fontGlyphs, i, font>>

\* The test of lines 314-316.
IsConverted(b, p, a, glyphCode) ==
    LET index == GlyphIndecesAt(b, p.encodingTable, glyphCode)
    IN  /\ index >= 0
        /\ index < p.metricsTable.metricsCount
        /\ isAcceptedGlyph(glyphCode, a)

\* convert(), lines 310-325: one iteration of the first loop.
ConvertCode ==
    /\ pc = "convert"
    /\ pcf.encodingTable # Undefined
    /\ code < pcf.encodingTable.glyphIndecesLength
    /\ IF IsConverted(rawBuffer, pcf, argv, code)
       THEN LET name == getGlyphName(rawBuffer, pcf, code)
                metrics == getGlyphMetrics(rawBuffer, pcf, code)
                bitmap == getGlyphBitmap(rawBuffer, pcf, code)
            IN  IF "throw" \in DOMAIN name
                THEN Throw(name.throw) /\ UNCHANGED <<code, glyphs>>
                ELSE IF "throw" \in DOMAIN metrics
                THEN Throw(metrics.throw) /\ UNCHANGED <<code, glyphs>>
                ELSE IF "throw" \in DOMAIN bitmap
                THEN Throw(bitmap.throw) /\ UNCHANGED <<code, glyphs>>
                ELSE /\ glyphs' = Append(glyphs,
                           [code |-> code,
                            index |-> GlyphIndexOf(rawBuffer, pcf, code),
                            name |-> name.value,
                            metrics |-> metrics.value,
                            bitmap |-> bitmap.value])
                     /\ code' = code + 1
                     /\ UNCHANGED <<pc, error>>
       ELSE code' = code + 1 /\ UNCHANGED <<glyphs, pc, error>>
    /\ UNCHANGED <<pcfFile, argv, rawBuffer, pcf, tocIdx, fontGlyphs, i, font>>

\* convert(), lines 326-336: the first loop is over; fontGlyphs starts with
\* the .notdef glyph.
ConvertDone ==
    /\ pc = "convert"
    /\ pcf.encodingTable # Undefined
    /\ code >= pcf.encodingTable.glyphIndecesLength
    /\ fontGlyphs' = <<NotdefGlyph(argv)>>
    /\ i' = 0
    /\ pc' = "vectorize"
    /\ UNCHANGED <<pcfFile, argv, rawBuffer, pcf, tocIdx, code, glyphs,
                   error, font>>

VectorizeNext_BackwardsMutant ==
    /\ pc = "vectorize"
    /\ i < Len(glyphs)
    /\ fontGlyphs' = Append(fontGlyphs,
                            vectorizeGlyph(glyphs[Len(glyphs) - i], argv))
    /\ i' = i + 1
    /\ UNCHANGED <<pcfFile, argv, rawBuffer, pcf, pc, tocIdx, code, glyphs,
                   error, font>>

\* convert(), lines 338-347: one iteration of the second loop.
VectorizeNext ==
    /\ pc = "vectorize"
    /\ i < Len(glyphs)
    /\ fontGlyphs' = Append(fontGlyphs, vectorizeGlyph(glyphs[i + 1], argv))
    /\ i' = i + 1
    /\ UNCHANGED <<pcfFile, argv, rawBuffer, pcf, pc, tocIdx, code, glyphs,
                   error, font>>

\* convert(), lines 349-365: the records are handed to opentype.Font.
BuildFont ==
    /\ pc = "vectorize"
    /\ i >= Len(glyphs)
    /\ font' = [unitsPerEm |-> UNITS_PER_EM,
                ascender |-> RatSub(RatScale(PIXEL_HEIGHT(argv),
                                             PIXEL_SIZE(argv)),
                                    DESCENDER_HEIGHT(argv)),
                descender |-> RatScale(-1, DESCENDER_HEIGHT(argv)),
                glyphs |-> fontGlyphs]
    /\ pc' = "done"
    /\ UNCHANGED <<pcfFile, argv, rawBuffer, pcf, tocIdx, code, glyphs,
                   fontGlyphs, i, error>>

Next ==
    \/ ParseHeader
    \/ ParseTable
    \/ ParseReturn
    \/ ConvertNoEncoding
    \/ ConvertCode
    \/ ConvertDone
    \/ VectorizeNext
    \/ BuildFont

Spec == Init /\ [][Next]_vars

(***************************************************************************)
(* Properties.                                                             *)
(***************************************************************************)
\* The decodings of the bytes at p, written out.
Little16(b, p) == ByteAt(b, p) + ByteAt(b, p + 1) * 256
Big16(b, p) == ByteAt(b, p) * 256 + ByteAt(b, p + 1)
Little32(b, p) ==
    ByteAt(b, p) + ByteAt(b, p + 1) * 256 + ByteAt(b, p + 2) * 65536
      + ByteAt(b, p + 3) * 16777216
Big32(b, p) ==
    ByteAt(b, p) * 16777216 + ByteAt(b, p + 1) * 65536
      + ByteAt(b, p + 2) * 256 + ByteAt(b, p + 3)
FormatIsBig(format) == (format \div 4) % 2 = 1
Selected16(b, p, format) ==
    IF FormatIsBig(format) THEN Big16(b, p) ELSE Little16(b, p)
Selected32(b, p, format) ==
    IF FormatIsBig(format) THEN Big32(b, p) ELSE Little32(b, p)
Palindrome32(b, p) ==
    ByteAt(b, p) = ByteAt(b, p + 3) /\ ByteAt(b, p + 1) = ByteAt(b, p + 2)

\* The directory entries that dispatch to the decoder of one table type.
EntriesOf(typeName) ==
    { k \in 1..Len(pcf.tocEntry) :
        tableTypeToString(pcf.tocEntry[k].type) = <<typeName>> }

\* C1 (as claimed): once the file has been read and its first 4 bytes are
\* not the signature, the run has failed and the parser holds no parsed
\* object: neither a table directory nor a decoded table can be read from
\* it.
C1_BadSignatureLeavesNothing ==
    (rawBuffer # Null /\ HeaderAt(rawBuffer) # ExpectedHeader)
        => (pc = "failed" /\ pcf = Null)

\* C2: in each of the four decoders the first field (format) is decoded
\* little-endian and every later multi-byte field big-endian iff bit 2 of
\* the format passed is set; where the bytes of a count are no palindrome
\* the two decodings differ.  Stated of the header fields of every
\* directory entry a decoder is applied to, and of the later fields of
\* every table the parser stored.
C2_HeadersBySelectedEndianess ==
    pcf # Null =>
      /\ \A k \in EntriesOf("PCF_GLYPH_NAMES") \cup EntriesOf("PCF_BITMAPS") :
           LET e == pcf.tocEntry[k]
               h == IF tableTypeToString(e.type) = <<"PCF_BITMAPS">>
                    THEN BitmapHeader(rawBuffer, e.offset, e.format)
                    ELSE GlyphNameHeader(rawBuffer, e.offset, e.format)
           IN  InBounds(rawBuffer, e.offset, 8) =>
                 /\ h.format = Little32(rawBuffer, e.offset)
                 /\ h.glyphCount = Selected32(rawBuffer, e.offset + 4, e.format)
                 /\ ~Palindrome32(rawBuffer, e.offset + 4) =>
                      /\ Little32(rawBuffer, e.offset + 4)
                           # Big32(rawBuffer, e.offset + 4)
                      /\ h.glyphCount =
                           (IF FormatIsBig(e.format)
                            THEN Big32(rawBuffer, e.offset + 4)
                            ELSE Little32(rawBuffer, e.offset + 4))
      /\ \A k \in EntriesOf("PCF_BDF_ENCODINGS") :
           LET e == pcf.tocEntry[k]
               h == EncodingHeader(rawBuffer, e.offset, e.format)
           IN  InBounds(rawBuffer, e.offset, 14) =>
                 /\ h.format = Little32(rawBuffer, e.offset)
                 /\ h.minCharOrByte2 = Selected16(rawBuffer, e.offset + 4, e.format)
                 /\ h.maxCharOrByte2 = Selected16(rawBuffer, e.offset + 6, e.format)
                 /\ h.minByte1 = Selected16(rawBuffer, e.offset + 8, e.format)
                 /\ h.maxByte1 = Selected16(rawBuffer, e.offset + 10, e.format)
                 /\ h.defaultChar = Selected16(rawBuffer, e.offset + 12, e.format)
      /\ \A k \in EntriesOf("PCF_METRICS") :
           LET e == pcf.tocEntry[k]
               h == MetricsHeader(rawBuffer, e.offset, e.format)
               compressed == e.format - (e.format % 256) = 256
           IN  InBounds(rawBuffer, e.offset, IF compressed THEN 6 ELSE 8) =>
                 /\ h.format = Little32(rawBuffer, e.offset)
                 /\ h.metricsCount =
                      (IF compressed
                       THEN Selected16(rawBuffer, e.offset + 4, e.format)
                       ELSE Selected32(rawBuffer, e.offset + 4, e.format))

C2_FieldsBySelectedEndianess ==
    pcf # Null =>
      /\ pcf.glyphNameTable # Undefined =>
           LET t == pcf.glyphNameTable
           IN  /\ t.stringSize =
                    Selected32(rawBuffer, t.tableOffset + 8 + 4 * t.glyphCount,
                               t.tableFormat)
               /\ \A k \in 0..(t.glyphCount - 1) :
                    OffsetsAt(rawBuffer, t, k) =
                      Selected32(rawBuffer, t.tableOffset + 8 + 4 * k,
                                 t.tableFormat)
      /\ pcf.bitmapTable # Undefined =>
           LET t == pcf.bitmapTable
           IN  /\ \A j \in 0..3 :
                    t.bitmapSizes[j] =
                      Selected32(rawBuffer,
                                 t.tableOffset + 8 + 4 * t.glyphCount + 4 * j,
                                 t.tableFormat)
               /\ \A k \in 0..(t.glyphCount - 1) :
                    OffsetsAt(rawBuffer, t, k) =
                      Selected32(rawBuffer, t.tableOffset + 8 + 4 * k,
                                 t.tableFormat)
      /\ pcf.encodingTable # Undefined =>
           LET t == pcf.encodingTable
           IN  \A k \in 0..(t.glyphIndecesLength - 1) :
                 GlyphIndecesAt(rawBuffer, t, k) =
                   Selected16(rawBuffer, t.tableOffset + 14 + 2 * k,
                              t.tableFormat)
      /\ (pcf.metricsTable # Undefined /\ pcf.encodingTable # Undefined
            /\ pcf.metricsTable.tableFormat
                 - (pcf.metricsTable.tableFormat % 256) # 256) =>
           LET t == pcf.metricsTable
               at(k, f) == t.tableOffset + 8 + 12 * k + 2 * f
           IN  \A c \in 0..(pcf.encodingTable.glyphIndecesLength - 1) :
                 LET k == GlyphIndecesAt(rawBuffer, pcf.encodingTable, c)
                     m == MetricsAt(rawBuffer, t, k)
                 IN  k < t.metricsCount =>
                       /\ m.leftSidedBearing = Selected16(rawBuffer, at(k, 0), t.tableFormat)
                       /\ m.rightSideBearing = Selected16(rawBuffer, at(k, 1), t.tableFormat)
                       /\ m.characterWidth = Selected16(rawBuffer, at(k, 2), t.tableFormat)
                       /\ m.characterAscent = Selected16(rawBuffer, at(k, 3), t.tableFormat)
                       /\ m.characterDescent = Selected16(rawBuffer, at(k, 4), t.tableFormat)
                       /\ m.characterAttributes = Selected16(rawBuffer, at(k, 5), t.tableFormat)

C2_EndianessByFormatBit ==
    C2_HeadersBySelectedEndianess /\ C2_FieldsBySelectedEndianess

\* C2, reached: all four tables are stored, the bitmap and metrics tables
\* were read big-endian and the name and encoding tables little-endian,
\* and the counts (3: the bytes 00 00 00 03 and 03 00 00 00) and a metrics
\* field (258) are no palindromes.
C2_Witness ==
    /\ pc = "convert"
    /\ pcf.glyphNameTable # Undefined /\ pcf.encodingTable # Undefined
    /\ pcf.metricsTable # Undefined /\ pcf.bitmapTable # Undefined
    /\ FormatIsBig(pcf.bitmapTable.tableFormat)
    /\ FormatIsBig(pcf.metricsTable.tableFormat)
    /\ ~FormatIsBig(pcf.glyphNameTable.tableFormat)
    /\ ~FormatIsBig(pcf.encodingTable.tableFormat)
    /\ pcf.bitmapTable.glyphCount = 3
    /\ pcf.glyphNameTable.glyphCount = 3
    /\ ~Palindrome32(rawBuffer, pcf.bitmapTable.tableOffset + 4)
    /\ MetricsAt(rawBuffer, pcf.metricsTable, 1).characterAttributes = 258
    /\ pcf.bitmapTable.bitmapSizes[1] = 36

\* C3: in a compressed metrics table every one of the five fields of every
\* entry is the stored byte minus 128, so lies in -128..127, and
\* characterAttributes is 0.
C3_CompressedMetricsRebiased ==
    (pcf # Null /\ pcf.metricsTable # Undefined
       /\ pcf.metricsTable.tableFormat
            - (pcf.metricsTable.tableFormat % 256) = 256) =>
      LET t == pcf.metricsTable
          stored(k, f) == ByteAt(rawBuffer, t.tableOffset + 6 + 5 * k + f)
      IN  \A k \in 0..(t.metricsCount - 1) :
            LET m == MetricsAt(rawBuffer, t, k)
                fields == <<m.leftSidedBearing, m.rightSideBearing,
                            m.characterWidth, m.characterAscent,
                            m.characterDescent>>
            IN  /\ \A f \in 1..5 :
                     /\ fields[f] = stored(k, f - 1) - 128
                     /\ fields[f] \in -128..127
                     /\ stored(k, f - 1) = 128 => fields[f] = 0
                     /\ stored(k, f - 1) = 0 => fields[f] = -128
                     /\ stored(k, f - 1) = 255 => fields[f] = 127
                /\ m.characterAttributes = 0

\* C3, reached: a stored compressed table in which every field holds every
\* byte value 0..255 in some entry, with the three named values decoded.
C3_Witness ==
    /\ pcf # Null /\ pcf.metricsTable # Undefined
    /\ pcf.metricsTable.tableFormat = 256
    /\ pcf.metricsTable.metricsCount = 256
    /\ \A v \in 0..255 : \A f \in 0..4 :
         \E k \in 0..255 :
           ByteAt(rawBuffer, pcf.metricsTable.tableOffset + 6 + 5 * k + f) = v
    /\ MetricsAt(rawBuffer, pcf.metricsTable, 128).leftSidedBearing = 0
    /\ MetricsAt(rawBuffer, pcf.metricsTable, 0).leftSidedBearing = -128
    /\ MetricsAt(rawBuffer, pcf.metricsTable, 255).leftSidedBearing = 127
    /\ MetricsAt(rawBuffer, pcf.metricsTable, 251).characterDescent = 127

\* The byte range of glyph index k of the stored bitmap table, from the
\* bytes of the table: <<first, end>>, end exclusive.
BitmapBlobBase == pcf.bitmapTable.tableOffset + 8 + 4 * pcf.bitmapTable.glyphCount + 16
StoredOffset(k) ==
    Selected32(rawBuffer, pcf.bitmapTable.tableOffset + 8 + 4 * k,
               pcf.bitmapTable.tableFormat)
ClaimedRange(k) ==
    <<StoredOffset(k) + BitmapBlobBase,
      (IF k = pcf.bitmapTable.glyphCount - 1
       THEN pcf.bitmapTable.bitmapSize
       ELSE StoredOffset(k + 1)) + BitmapBlobBase>>

\* C4: the bitmap getGlyphBitmap returned for a glyph index k of the bitmap
\* table is the bytes [offsets[k] + base, offsets[k+1] + base), and
\* [offsets[k] + base, bitmapSize + base) for the last glyph.  Stated of
\* every record collected, where that range lies inside the buffer.
C4_BitmapIsClaimedRange ==
    \A g \in 1..Len(glyphs) :
      LET k == glyphs[g].index
          range == ClaimedRange(k)
      IN  (k < pcf.bitmapTable.glyphCount /\ range[1] <= range[2]
             /\ range[2] <= BufLen(rawBuffer)) =>
            /\ Len(glyphs[g].bitmap) = range[2] - range[1]
            /\ \A j \in 1..Len(glyphs[g].bitmap) :
                 glyphs[g].bitmap[j] = ByteAt(rawBuffer, range[1] + j - 1)

\* C4, reached: offsets 0, 8, 20 and bitmapSize 32; the three glyphs were
\* collected with the bytes of [0,8), [8,20) and [20,32) after the base.
C4_Witness ==
    /\ pc = "vectorize"
    /\ pcf.bitmapTable.glyphCount = 3
    /\ pcf.bitmapTable.bitmapSize = 32
    /\ <<StoredOffset(0), StoredOffset(1), StoredOffset(2)>> = <<0, 8, 20>>
    /\ BitmapBlobBase + 32 = BufLen(rawBuffer)
    /\ \E g0, g1, g2 \in 1..Len(glyphs) :
         /\ glyphs[g0].index = 0 /\ Len(glyphs[g0].bitmap) = 8
         /\ glyphs[g1].index = 1 /\ Len(glyphs[g1].bitmap) = 12
         /\ glyphs[g2].index = 2 /\ Len(glyphs[g2].bitmap) = 12
         /\ glyphs[g2].bitmap[12] = ByteAt(rawBuffer, BitmapBlobBase + 31)
         /\ glyphs[g1].bitmap[1] = 168

\* Some byte range the file declares ends after the end of the buffer: a
\* directory entry's offset + size, or the bitmap range of a glyph.
DeclaredPastEnd ==
    /\ pcf # Null
    /\ \/ \E k \in 1..Len(pcf.tocEntry) :
            pcf.tocEntry[k].offset + pcf.tocEntry[k].size > BufLen(rawBuffer)
       \/ /\ pcf.bitmapTable # Undefined
          /\ \E k \in 0..(pcf.bitmapTable.glyphCount - 1) :
               ClaimedRange(k)[2] > BufLen(rawBuffer)

\* C5 (as claimed): when a declared range reads past the end of the buffer
\* the run fails; no glyph record is collected and nothing is handed to the
\* font builder.
C5_PastEndIsFatal ==
    (rawBuffer # Null /\ DeclaredPastEnd)
        => (glyphs = << >> /\ pc \notin {"vectorize", "done"})

\* C6 (as claimed): a code whose encoding entry is 0xFFFF, or lies outside
\* [0, metricsCount), gets no glyph record, whatever metricsCount is: every
\* record collected has an index other than 0xFFFF and inside the range.
C6_AbsentCodesSkipped ==
    \A g \in 1..Len(glyphs) :
      LET k == GlyphIndecesAt(rawBuffer, pcf.encodingTable, glyphs[g].code)
      IN  /\ k # 65535
          /\ 0 <= k /\ k < pcf.metricsTable.metricsCount

\* The three filter policies, as the command line selects them.
PolicyOf(a) ==
    IF a.dry_run THEN "AsciiOnly"
    ELSE IF a.gb2312_only THEN "AsciiPlusGb2312" ELSE "Full"
Accepts(policy, c) ==
    CASE policy = "Full" -> TRUE
      [] policy = "AsciiOnly" -> 32 <= c /\ c <= 255
      [] policy = "AsciiPlusGb2312" ->
           (32 <= c /\ c <= 255) \/ c \in GB2312_SET
CollectedCodes == { glyphs[g].code : g \in 1..Len(glyphs) }

\* C7: Full accepts every code; AsciiOnly accepts c iff 0x20 <= c <= 0xFF;
\* AsciiPlusGb2312 accepts c iff AsciiOnly does or c is in the GB2312 set.
\* Stated of the filter on every code of the encoding table, and of the
\* records collected: a code passed over has a record iff its glyph index
\* is in range and its policy accepts it.
C7_FilterPolicies ==
    (pc \in {"convert", "vectorize", "done"}
       /\ pcf.encodingTable # Undefined) =>
      /\ \A c \in 0..(pcf.encodingTable.glyphIndecesLength - 1) :
           /\ isAcceptedGlyph(c, argv) = Accepts(PolicyOf(argv), c)
           /\ (32 <= c /\ c <= 255) =>
                (Accepts("AsciiOnly", c) /\ Accepts("AsciiPlusGb2312", c))
           /\ PolicyOf(argv) = "Full" => isAcceptedGlyph(c, argv)
      /\ \A c \in 0..((IF pc = "convert" THEN code
                       ELSE pcf.encodingTable.glyphIndecesLength) - 1) :
           (c \in CollectedCodes) <=>
             /\ GlyphIndecesAt(rawBuffer, pcf.encodingTable, c)
                  < pcf.metricsTable.metricsCount
             /\ Accepts(PolicyOf(argv), c)

\* C7, reached: under AsciiPlusGb2312 the codes 31, 32, 65, 255, 256 and
\* 257 all have glyphs; 32, 65, 255 (ASCII) and 257 (GB2312) were
\* collected, 31 and 256 were not.
C7_Witness ==
    /\ pc = "done"
    /\ PolicyOf(argv) = "AsciiPlusGb2312"
    /\ \A c \in {31, 32, 65, 255, 256, 257} :
         GlyphIndecesAt(rawBuffer, pcf.encodingTable, c)
           < pcf.metricsTable.metricsCount
    /\ CollectedCodes = {32, 65, 255, 257}

\* C8: the advance width of every glyph built from a glyph record is
\* characterWidth * unitsPerEm / pixelHeight, exactly, with no rounding.
C8_AdvanceIsWidthTimesPixelSize ==
    (pc \in {"vectorize", "done"}) =>
      \A k \in 2..Len(fontGlyphs) :
        LET c == glyphs[k - 1].code
            m == MetricsAt(rawBuffer, pcf.metricsTable,
                           GlyphIndecesAt(rawBuffer, pcf.encodingTable, c))
            adv == fontGlyphs[k].advanceWidth
        IN  /\ fontGlyphs[k].unicode = c
            /\ adv.n * argv.glyph_size_in_pixel
                 = m.characterWidth * UNITS_PER_EM * adv.d

\* C8, reached: pixel height 13, a glyph 5 pixels wide: advance 5000/13,
\* which is no integer.
C8_Witness ==
    /\ pc = "done"
    /\ argv.glyph_size_in_pixel = 13
    /\ \E k \in 2..Len(fontGlyphs) :
         /\ glyphs[k - 1].metrics.characterWidth = 5
         /\ fontGlyphs[k].advanceWidth.n * 13
              = 5000 * fontGlyphs[k].advanceWidth.d
         /\ (fontGlyphs[k].advanceWidth.n % fontGlyphs[k].advanceWidth.d) # 0

\* The record the claim describes: '.notdef', code 0, empty outline,
\* advance 8 * unitsPerEm / pixelHeight.
IsNotdefRecord(g) ==
    /\ g.name = [chars |-> <<46, 110, 111, 116, 100, 101, 102>>]
    /\ g.unicode = 0
    /\ g.path = << >>
    /\ g.advanceWidth.n * argv.glyph_size_in_pixel = 8 * UNITS_PER_EM * g.advanceWidth.d

\* C9: the first record of the list handed to the font builder is the
\* '.notdef' record with an empty outline and advance 8 * pixelSize, and no
\* other record of the list is such a record, for every font and policy.
C9_NotdefFirstAndOnce ==
    /\ (pc \in {"vectorize", "done"}) =>
         /\ Len(fontGlyphs) >= 1
         /\ IsNotdefRecord(fontGlyphs[1])
         /\ \A k \in 2..Len(fontGlyphs) : ~IsNotdefRecord(fontGlyphs[k])
    /\ pc = "done" =>
         /\ font.glyphs = fontGlyphs
         /\ Len(font.glyphs) = Len(glyphs) + 1

\* C9, reached: a font was built from no glyph record at all (the filter
\* accepted no code), and it holds the '.notdef' record alone.
C9_Witness ==
    /\ pc = "done"
    /\ PolicyOf(argv) = "AsciiOnly"
    /\ pcf.encodingTable.glyphIndecesLength = 1
    /\ GlyphIndecesAt(rawBuffer, pcf.encodingTable, 0) = 0
    /\ glyphs = << >>
    /\ Len(font.glyphs) = 1
    /\ IsNotdefRecord(font.glyphs[1])

\* C9, reached too: the glyph of code 0 is itself named '.notdef', is 8
\* pixels wide and blank; its record follows the '.notdef' record.
C9_NamesakeReached ==
    /\ pc = "done"
    /\ Len(font.glyphs) = 2
    /\ font.glyphs[2].name = font.glyphs[1].name
    /\ font.glyphs[2].advanceWidth = font.glyphs[1].advanceWidth

\* The set bits the claim counts: row r is the 4 bytes from 4r, column c of
\* a row is bit 7 - (c % 8) of its byte c \div 8, and only the columns below
\* characterWidth (and below 32) count.
SetBits(bitmap, width) ==
    { rc \in (0..((Len(bitmap) + 3) \div 4 - 1)) \X (0..(Min(width, 32) - 1)) :
        LET at == 4 * rc[1] + rc[2] \div 8 + 1
        IN  /\ at <= Len(bitmap)
            /\ (bitmap[at] \div (2 ^ (7 - (rc[2] % 8)))) % 2 = 1 }
SubPaths(path) == { j \in 1..Len(path) : path[j].type = "M" }

\* C10 (as claimed): the outline of a glyph has exactly one sub-path for
\* each set bit in the first characterWidth columns of each 4-byte row of
\* its bitmap, and none for any other bit.
C10_OneSubPathPerSetBit ==
    (pc \in {"vectorize", "done"}) =>
      \A k \in 2..Len(fontGlyphs) :
        Cardinality(SubPaths(fontGlyphs[k].path))
          = Cardinality(SetBits(glyphs[k - 1].bitmap,
                                glyphs[k - 1].metrics.characterWidth))

\* ---- outlines -----------------------------------------------------------
\* A coordinate c stands for c.h / 2 + c.m / 2000000; q is a rational.
\* c > q and c < q, computed around the integer part of q to stay small.
CoordGt(c, q) ==
    LET qi == q.n \div q.d
        qf == q.n - qi * q.d
    IN  (c.h - 2 * qi) * 1000000 + c.m > (2000000 * qf) \div q.d
CoordLt(c, q) ==
    LET qi == q.n \div q.d
        qf == q.n - qi * q.d
    IN  (c.h - 2 * qi) * 1000000 + c.m < 0 - ((0 - 2000000 * qf) \div q.d)
CoordLe(c, e) == (c.h - e.h) * 1000000 + c.m - e.m <= 0
CoordEq(c, e) == c.h = e.h /\ c.m = e.m

\* The points of a command: its end point and, for a curve, its two
\* control points.
PointsOf(cmd) ==
    IF cmd.type = "C"
    THEN {<<cmd.x1, cmd.y1>>, <<cmd.x2, cmd.y2>>, <<cmd.x, cmd.y>>}
    ELSE IF cmd.type = "Z" THEN {}
    ELSE {<<cmd.x, cmd.y>>}

\* The commands of the sub-path that starts with the move at index j: up to
\* the next move or the closing Z.
SubPathEnd(path, j) ==
    LET later == { k \in (j + 1)..Len(path) : path[k].type \in {"M", "Z"} }
    IN  IF later = {} THEN Len(path)
        ELSE (CHOOSE k \in later : \A o \in later : k <= o) - 1
SubPathPoints(path, j) ==
    UNION { PointsOf(path[k]) : k \in j..SubPathEnd(path, j) }

\* The glyph record record k of fontGlyphs was built from, and its cell
\* grid in font space: column x spans [CellLeft(x), CellLeft(x + 1)], row y
\* spans [CellTop(y + 1), CellTop(y)] (font y grows upwards).
RecordOf(k) == glyphs[k - 1]
CellLeft(k, x) ==
    [n |-> (RecordOf(k).metrics.leftSidedBearing + x) * 1000,
     d |-> argv.glyph_size_in_pixel]
CellTop(k, y) ==
    [n |-> ((argv.glyph_size_in_pixel - 3)
              - (argv.glyph_size_in_pixel - 2
                   - RecordOf(k).metrics.characterAscent) - y) * 1000,
     d |-> argv.glyph_size_in_pixel]
BuiltRecords ==
    IF pc \in {"vectorize", "done"} THEN 2..Len(fontGlyphs) ELSE {}

C12_CircleIsFourClosedCurves ==
    \A k \in BuiltRecords :
      argv.dot_shape = "circle" =>
        LET path == fontGlyphs[k].path
        IN  /\ \A j \in SubPaths(path) :
                 /\ SubPathEnd(path, j) = j + 4
                 /\ \A c \in (j + 1)..(j + 4) : path[c].type = "C"
                 /\ CoordEq(path[j + 4].x, path[j].x)
                 /\ CoordEq(path[j + 4].y, path[j].y)
            /\ \A c \in 1..Len(path) :
                 path[c].type = "C" =>
                   \E j \in SubPaths(path) : j < c /\ c <= j + 4
            /\ RecordOf(k).metrics.characterWidth >= 0 =>
                 Cardinality(SubPaths(path))
                   = Cardinality(SetBits(RecordOf(k).bitmap,
                                         RecordOf(k).metrics.characterWidth))

\* C12, reached: the grid glyph drawn with circles at pixel height 13: one
\* sub-path of 4 curves for each of its 8 * MaxGridRows pixels.
C12_Witness ==
    /\ pc = "done"
    /\ argv.dot_shape = "circle"
    /\ argv.glyph_size_in_pixel = 13
    /\ Len(glyphs) = 1
    /\ glyphs[1].bitmap = GridData
    /\ Cardinality(SubPaths(fontGlyphs[2].path)) = 8 * MaxGridRows
    /\ Len(fontGlyphs[2].path) = 40 * MaxGridRows + 1
    /\ fontGlyphs[2].path[2].type = "C"

\* The codes convert() has to emit: those whose encoding entry is a glyph
\* index below metricsCount and which the policy accepts.
CodesToEmit ==
    { c \in 0..(pcf.encodingTable.glyphIndecesLength - 1) :
        /\ Selected16(rawBuffer, pcf.encodingTable.tableOffset + 14 + 2 * c,
                      pcf.encodingTable.tableFormat)
             < pcf.metricsTable.metricsCount
        /\ Accepts(PolicyOf(argv), c) }

\* C13: the records after the '.notdef' record are in strictly increasing
\* code order; a record is never one of a code that was not accepted or
\* has no valid index; and in the list handed to the font builder every
\* accepted code with a valid index has its record, exactly once.
C13_RecordsInCodeOrder ==
    /\ \A k \in BuiltRecords :
         /\ k > 2 => fontGlyphs[k - 1].unicode < fontGlyphs[k].unicode
         /\ fontGlyphs[k].unicode \in CodesToEmit
    /\ pc = "done" =>
         /\ { font.glyphs[k].unicode : k \in 2..Len(font.glyphs) } = CodesToEmit
         /\ Len(font.glyphs) - 1 = Cardinality(CodesToEmit)

\* C13, reached: the font built from the base file with no filter: codes
\* 31, 32, 33, 34 in this order (31 and 33 share a glyph; 5 has the index
\* 7 of no glyph; the rest is absent).
C13_Witness ==
    /\ pc = "done"
    /\ PolicyOf(argv) = "Full"
    /\ pcf.encodingTable.glyphIndecesLength = 35
    /\ Len(font.glyphs) = 5
    /\ [k \in 1..4 |-> font.glyphs[k + 1].unicode] = <<31, 32, 33, 34>>
    /\ glyphs[1].index = glyphs[3].index

\* The composite code of the encoding-table cell at row-major position p.
CompositeCode(t, p) ==
    LET columns == t.maxCharOrByte2 - t.minCharOrByte2 + 1
    IN  (t.minByte1 + (p \div columns)) * 256
          + t.minCharOrByte2 + (p % columns)

\* C14 (as claimed): the code of every glyph record collected is the
\* composite code byte1 * 256 + byte2 of the encoding-table cell it was
\* read from, for every choice of the range fields.
C14_CodeIsCompositeCode ==
    \A g \in 1..Len(glyphs) :
      glyphs[g].code = CompositeCode(pcf.encodingTable, glyphs[g].code)

\* C15 (as claimed): the blob size the bitmap decoder selects is the
\* candidate at index (tableFormat & 3), tableFormat being the format of
\* the directory entry passed to the decoder, whatever the in-table format
\* word is.
C15_SizeByDirectoryFormat ==
    (pcf # Null /\ pcf.bitmapTable # Undefined) =>
      pcf.bitmapTable.bitmapSize =
        Selected32(rawBuffer,
                   pcf.bitmapTable.tableOffset + 8
                     + 4 * pcf.bitmapTable.glyphCount
                     + 4 * (pcf.bitmapTable.tableFormat % 4),
                   pcf.bitmapTable.tableFormat)

\* The corners of the pixel at row y, column x of the glyph record of
\* record k, as the claim computes them: <<left, top, right, bottom>> in
\* font space, each a rational over 9 * pixelHeight (pixelSize is
\* 9000 / (9 ph), the padding 1000 / (9 ph)).
ExactCorners(k, x, y) ==
    LET ph == argv.glyph_size_in_pixel
        m == RecordOf(k).metrics
        q(ninths) == [n |-> ninths * 1000, d |-> 9 * ph]
        xOffset == 9 * m.leftSidedBearing
        yOffset == 9 * (ph - 2 - m.characterAscent)
        glyphTop == 9 * ph - 9 * 3
    IN  <<q(xOffset + 9 * x + 1),
          q(glyphTop - (yOffset + 9 * y + 1)),
          q(xOffset + 9 * (x + 1) - 1),
          q(glyphTop - (yOffset + 9 * (y + 1) - 1))>>

\* The nearest integer to a rational (no value here is half an integer).
Nearest(q) == CHOOSE v \in ((q.n \div q.d) - 1)..((q.n \div q.d) + 1) :
                 /\ 2 * q.d * v - 2 * q.n <= q.d
                 /\ 2 * q.n - 2 * q.d * v < q.d

\* The corners the dot drawer of the sub-path at index j was given, read
\* back from its commands: <<left, top, right, bottom>>.
DrawnCorners(path, j) ==
    IF argv.dot_shape = "square"
    THEN <<path[j].x, path[j].y, path[j + 2].x, path[j + 2].y>>
    ELSE <<path[j + 1].x, path[j].y, path[j + 3].x, path[j + 2].y>>

IsExactly(c, q) == c.m = 0 /\ c.h * q.d = 2 * q.n
IsInteger(c, v) == c.m = 0 /\ c.h = 2 * v

\* The glyph records the corner claims are stated of: those with a
\* characterWidth that is no negative number.
PlainRecords ==
    { k \in BuiltRecords : RecordOf(k).metrics.characterWidth >= 0 }
BitsOf(k) ==
    SetBits(RecordOf(k).bitmap, RecordOf(k).metrics.characterWidth)

CellOf(k, path, j) ==
    LET ph == argv.glyph_size_in_pixel
        m == RecordOf(k).metrics
        drawn == DrawnCorners(path, j)
        left == drawn[1].h \div 2
        top == drawn[2].h \div 2
    IN  <<m.characterAscent - 1 + ((0 - top * ph) \div 1000),
          ((left * ph) \div 1000) - m.leftSidedBearing>>

IsMidpoint(c, a, b) == c.m = 0 /\ 2 * c.h = a.h + b.h

\* C17 (as claimed): under the diamond shape the sub-path of a set bit goes
\* through the midpoints of the top, left, bottom and right sides of the
\* bit's rectangle (left, top, right, bottom) and back to the first; the
\* left and right vertices have y = (top + bottom) / 2.
C17_DiamondThroughMidpoints ==
    \A k \in PlainRecords :
      argv.dot_shape = "diamond" =>
        LET path == fontGlyphs[k].path
        IN  \A j \in SubPaths(path) :
              LET rc == CellOf(k, path, j)
                  exact == ExactCorners(k, rc[2], rc[1])
                  side(s) == [h |-> 2 * Nearest(exact[s]), m |-> 0]
              IN  /\ SubPathEnd(path, j) = j + 4
                  /\ \A c \in (j + 1)..(j + 4) : path[c].type = "L"
                  /\ IsMidpoint(path[j].x, side(1), side(3))
                  /\ CoordEq(path[j].y, side(2))
                  /\ CoordEq(path[j + 1].x, side(1))
                  /\ IsMidpoint(path[j + 1].y, side(2), side(4))
                  /\ IsMidpoint(path[j + 2].x, side(1), side(3))
                  /\ CoordEq(path[j + 2].y, side(4))
                  /\ CoordEq(path[j + 3].x, side(3))
                  /\ IsMidpoint(path[j + 3].y, side(2), side(4))
                  /\ CoordEq(path[j + 4].x, path[j].x)
                  /\ CoordEq(path[j + 4].y, path[j].y)

\* a lies strictly below b, both without curve term.
Below(a, b) == a.m = 0 /\ b.m = 0 /\ a.h < b.h

ParseReturned ==
    \/ pc \in {"convert", "vectorize", "done"}
    \/ pc = "failed" /\ pcf # Null /\ pcf.metricsTable # Undefined
         /\ error = "TypeError"

\* C19 (as claimed): after a successful parse() the metrics table's
\* metricsCount equals the bitmap table's glyphCount, so that the index of
\* every glyph record collected is an index into the bitmap offsets.
C19_CountsAgree ==
    (ParseReturned /\ pcf.bitmapTable # Undefined) =>
      /\ pcf.metricsTable.metricsCount = pcf.bitmapTable.glyphCount
      /\ \A g \in 1..Len(glyphs) :
           glyphs[g].index < pcf.bitmapTable.glyphCount

\* No parse() call has completed successfully: parse() was not called yet,
\* or it threw.
NoParseCompleted ==
    \/ pc = "parse"
    \/ pc = "failed" /\ ~ParseReturned

\* C20 (as claimed): while no parse() call has completed successfully the
\* parsed object pcf is null and each of the three accessors fails with
\* the 'has not been parsed yet' error, for any code.
C20_UnparsedIsNull ==
    NoParseCompleted =>
      /\ pcf = Null
      /\ \A c \in {0, 32, 65} :
           /\ getGlyphName(rawBuffer, pcf, c) = NotParsedYet
           /\ getGlyphMetrics(rawBuffer, pcf, c) = NotParsedYet
           /\ getGlyphBitmap(rawBuffer, pcf, c) = NotParsedYet

\* C21 (as claimed): the outline of a glyph with no set bit in its first
\* characterWidth columns has no command at all, like the outline of the
\* '.notdef' record; in general an outline holds the commands of the
\* sub-paths of its set bits (5 each) and nothing else.
C21_BlankOutlineEmpty ==
    \A k \in PlainRecords :
      /\ BitsOf(k) = {} =>
           /\ fontGlyphs[k].path = << >>
           /\ fontGlyphs[k].path = fontGlyphs[1].path
      /\ Len(fontGlyphs[k].path) = 5 * Cardinality(BitsOf(k))

\* C22 (as claimed): whenever parse() has returned without an error the
\* parsed object holds all four decoded tables, whatever the directory.
C22_AllTablesPresent ==
    ParseReturned =>
      /\ pcf.glyphNameTable # Undefined
      /\ pcf.encodingTable # Undefined
      /\ pcf.metricsTable # Undefined
      /\ pcf.bitmapTable # Undefined

====
